---- MODULE Spec2Model ----
(***************************************************************************)
(* Closed-loop RAG system: the ingestion pipeline (DocumentIngester.ingest *)
(* with MilvusVectorStore.insert) and the query pipeline                   *)
(* (RAGQueryEngine.query), as state machines over per-task call frames.    *)
(*                                                                         *)
(* The converter, chunker, embedding service, vector index and generation  *)
(* service are collaborators handed to the pipelines by reference; each    *)
(* call to one of them either raises an Exception with some message or     *)
(* returns a value of the shape its interface promises.                    *)
(***************************************************************************)
EXTENDS Integers, Sequences, FiniteSets, TLC

VARIABLES uuid_count, num_entities, started, ingest, query, chunker, evaluator,
          api, collection, tmp_files

vars == <<uuid_count, num_entities, started, ingest, query, chunker, evaluator,
          api, collection, tmp_files>>

\* the state of the two pipelines, of the API application around them, and
\* of the chunker and the evaluator
pipelines == <<uuid_count, num_entities, started, ingest, query>>
application == <<api, collection, tmp_files>>
components == <<chunker, evaluator, application>>

(***************************************************************************)
(* Bounds of the model.                                                    *)
(***************************************************************************)
NumTasks == 2       \* call frames that can exist
MaxCalls == 2       \* pipeline invocations started in one behaviour
MaxChunks == 2      \* chunks a chunker returns for one document
MaxHits == 2        \* hits a search returns
MaxTextLen == 7     \* characters of a text given to the chunker
MaxChunkSize == 3   \* chunk_size, and overlap, of a configured chunker
MaxQueryLen == 2    \* characters of a query given to the evaluator
MaxAnswerLen == 3   \* characters of an answer given to the evaluator
MaxSources == 2     \* sources of a response, when they differ from each other

Tasks == 1..NumTasks

(***************************************************************************)
(* Values the collaborators and callers supply.                            *)
(***************************************************************************)
Paths == {"x.pdf", "y.md"}
Markdowns == {"# Test Document", "", " \n "}
ChunkTexts == {"aa", "bb"}
\* str(e) of the exception a collaborator raises; Exception() has str "".
ErrMsgs == {"", "Service failed"}
Questions == {"what", "why found"}
TopKs == {1, 5}
HitTexts == {"First document", "Second document"}
HitScores == {50, 90}                       \* similarity in hundredths
HitMetadatas == {[source |-> "x.pdf"]}
Answers == {"", "First answer"}

(***************************************************************************)
(* uuid.uuid4(): the n-th identifier generated in a behaviour.  Version-4   *)
(* identifiers are random 122-bit values; generating one never returns an  *)
(* identifier that was generated before.                                   *)
(***************************************************************************)
\* Slip: the generator returns the same identifier every time.
Uuid_Repeating(n) == "uuid-0"

Uuid(n) == "uuid-" \o ToString(n)

(***************************************************************************)
(* Python dictionaries are functions from keys to values.                  *)
(***************************************************************************)
EmptyDict == <<>>

\* {**a, **b}: the keys of both, b's value where both have the key.
DictMerge(a, b) ==
    [k \in (DOMAIN a) \cup (DOMAIN b) |-> IF k \in DOMAIN b THEN b[k] ELSE a[k]]

\* the dictionaries of S, and each of them with key k set to a value of vals
WithOptionalKey(S, k, vals) ==
    S \cup { DictMerge(m, [x \in {k} |-> v]) : m \in S, v \in vals }

(***************************************************************************)
(* TextChunker.  A text is a sequence of characters.                       *)
(***************************************************************************)
Chars == {"a", "b", " "}

IsSpace(c) == c \in {" ", "\t", "\n", "\r", "\f"}

\* str.split(): the maximal runs of non-whitespace characters, in order.
\* word is the run being read, words the runs already closed.
RECURSIVE SplitFrom(_, _, _, _)
SplitFrom(text, i, word, words) ==
    IF i > Len(text)
    THEN IF word = <<>> THEN words ELSE Append(words, word)
    ELSE IF IsSpace(text[i])
    THEN SplitFrom(text, i + 1, <<>>,
                   IF word = <<>> THEN words ELSE Append(words, word))
    ELSE SplitFrom(text, i + 1, Append(word, text[i]), words)

Split(text) == SplitFrom(text, 1, <<>>, <<>>)

\* " ".join(words)
RECURSIVE JoinSpace(_)
JoinSpace(words) ==
    IF Len(words) = 0 THEN <<>>
    ELSE IF Len(words) = 1 THEN words[1]
    ELSE words[1] \o <<" ">> \o JoinSpace(Tail(words))

\* range(start, stop, step) for step # 0, as a sequence
RECURSIVE Range(_, _, _)
Range(start, stop, step) ==
    IF (step > 0 /\ start >= stop) \/ (step < 0 /\ start <= stop)
    THEN <<>>
    ELSE <<start>> \o Range(start + step, stop, step)

\* words[i : j] for 0 <= i <= j, 0-based, clipped to the length of words
Slice(words, i, j) ==
    LET hi == IF j < Len(words) THEN j ELSE Len(words) IN
    IF i >= hi THEN <<>> ELSE SubSeq(words, i + 1, hi)

\* Slip: the step of the loop is chunk_size, the overlap is forgotten.
Stride_NoOverlap(chunk_size, overlap) == chunk_size

\* Slip: the step of the loop skips the overlap instead of repeating it.
Stride_Plus(chunk_size, overlap) == chunk_size + overlap

\* self.chunk_size - self.overlap
Stride(chunk_size, overlap) == chunk_size - overlap

\* Slip: chunk_index is the token offset of the chunk.
ChunkAtOffset_IndexIsOffset(words, i, chunk_size, overlap, source) ==
    LET chunk_text == JoinSpace(Slice(words, i, i + chunk_size)) IN
    [text |-> chunk_text,
     metadata |-> [source |-> source,
                   chunk_index |-> i,
                   char_count |-> Len(chunk_text)]]

\* the body of the loop for offset i
ChunkAtOffset(words, i, chunk_size, overlap, source) ==
    LET chunk_text == JoinSpace(Slice(words, i, i + chunk_size)) IN
    [text |-> chunk_text,
     metadata |-> [source |-> source,
                   chunk_index |-> i \div Stride(chunk_size, overlap),
                   char_count |-> Len(chunk_text)]]

\* TextChunker(chunk_size, overlap).chunk(text, source): the list of chunks
\* returned, or the exception raised (range() rejects a step of zero).
TextChunkerChunk(chunk_size, overlap, text, source) ==
    LET words == Split(text)
        step == Stride(chunk_size, overlap)
    IN
    IF Len(words) = 0
    THEN [kind |-> "returned", value |-> <<>>]
    ELSE IF step = 0
    THEN [kind |-> "raised", error |-> "range() arg 3 must not be zero"]
    ELSE LET offsets == Range(0, Len(words), step) IN
         [kind |-> "returned",
          value |-> [n \in 1..Len(offsets) |->
                        ChunkAtOffset(words, offsets[n], chunk_size, overlap, source)]]

\* str as the sequence of its characters, for the strings that occur
Characters(s) ==
    CASE s = "" ->
            <<>>
      [] s = " \n " ->
            <<" ", "\n", " ">>
      [] s = "# Test Document" ->
            <<"#", " ", "T", "e", "s", "t", " ", "D", "o", "c", "u", "m", "e", "n", "t">>
      [] s = "what" ->
            <<"w", "h", "a", "t">>
      [] s = "No documents" ->
            <<"N", "o", " ", "d", "o", "c", "u", "m", "e", "n", "t", "s">>
      [] s = "why found" ->
            <<"w", "h", "y", " ", "f", "o", "u", "n", "d">>
      [] s = "is it found." ->
            <<"i", "s", " ", "i", "t", " ", "f", "o", "u", "n", "d", ".">>
      [] s = "First answer" ->
            <<"F", "i", "r", "s", "t", " ", "a", "n", "s", "w", "e", "r">>
      [] s = "First document" ->
            <<"F", "i", "r", "s", "t", " ", "d", "o", "c", "u", "m", "e", "n", "t">>
      [] s = "Second document" ->
            <<"S", "e", "c", "o", "n", "d", " ", "d", "o", "c", "u", "m", "e", "n", "t">>
      [] s = "No relevant documents found." ->
            <<"N", "o", " ", "r", "e", "l", "e", "v", "a", "n", "t", " ", "d", "o", "c", "u", "m", "e", "n", "t", "s", " ", "f", "o", "u", "n", "d", ".">>
      [] s = "no" ->
            <<"n", "o">>
      [] s = "relevant" ->
            <<"r", "e", "l", "e", "v", "a", "n", "t">>
      [] s = "documents" ->
            <<"d", "o", "c", "u", "m", "e", "n", "t", "s">>
      [] s = "found." ->
            <<"f", "o", "u", "n", "d", ".">>
      [] s = "sample.md" ->
            <<"s", "a", "m", "p", "l", "e", ".", "m", "d">>
      [] s = "docs/x.md" ->
            <<"d", "o", "c", "s", "/", "x", ".", "m", "d">>

\* A chunker as constructed by default, before any call of chunk.
IdleChunker ==
    [chunk_size |-> 512, overlap |-> 50, text |-> <<>>, source |-> "",
     outcome |-> [kind |-> "pending"]]

\* the texts of at most n characters
RECURSIVE TextsUpTo(_)
TextsUpTo(n) ==
    IF n = 0 THEN {<<>>}
    ELSE LET shorter == TextsUpTo(n - 1) IN
         shorter \cup { Append(tx, c) : tx \in { u \in shorter : Len(u) = n - 1 },
                                        c \in Chars }

ChunkSizes == 1..MaxChunkSize
Overlaps == 0..MaxChunkSize
ChunkSources == {"test.txt"}

\* chunks = chunker.chunk(text, source)
ChunkerChunk ==
    /\ chunker.outcome.kind = "pending"
    /\ chunker' = [chunker EXCEPT !.outcome =
          TextChunkerChunk(chunker.chunk_size, chunker.overlap,
                           chunker.text, chunker.source)]
    /\ UNCHANGED <<pipelines, evaluator, application>>

(***************************************************************************)
(* Collaborators of DocumentIngester.                                      *)
(***************************************************************************)
\* MarkItDownConverter.convert: format is the suffix of the file name.
Format(file_path) == IF file_path = "x.pdf" THEN "pdf" ELSE "md"

\* What a converter can return for file_path: markdown text and a metadata
\* dictionary.  MarkItDownConverter sets source to the file name and
\* char_count to the length of the text; a substitute converter may leave
\* keys out or add a document_id of its own.
ConverterMetadatas(file_path) ==
    WithOptionalKey(
        WithOptionalKey(
            WithOptionalKey({[format |-> Format(file_path)]},
                            "source", {file_path}),
            "char_count", {15}),
        "document_id", {"other-id"})

ConverterOutputs(file_path) ==
    { [markdown |-> md, metadata |-> m] :
        md \in Markdowns, m \in ConverterMetadatas(file_path) }

\* Chunk(text, metadata) at 1-based output position i.  TextChunker sets
\* source, chunk_index and char_count; a substitute chunker may leave keys
\* out or add a document_id of its own.  common holds the keys a chunker
\* gives to every chunk of one document.
ChunkCommons ==
    WithOptionalKey(
        WithOptionalKey({EmptyDict}, "source", {"x.pdf"}),
        "document_id", {"other-id"})

ChunkMetadatas(i, common) ==
    WithOptionalKey({DictMerge(common, [chunk_index |-> i - 1])},
                    "char_count", {2})

ChunksAt(i, common) ==
    { [text |-> tx, metadata |-> m] :
        tx \in ChunkTexts, m \in ChunkMetadatas(i, common) }

RECURSIVE ChunkLists(_, _)
ChunkLists(n, common) ==
    IF n = 0 THEN {<<>>}
    ELSE { Append(s, c) : s \in ChunkLists(n - 1, common), c \in ChunksAt(n, common) }

\* What chunker.chunk(markdown, source) can return.
ChunkerOutputs ==
    UNION { ChunkLists(n, common) : n \in 0..MaxChunks, common \in ChunkCommons }

\* Slip: a text without words is rejected.
ChunkerOutcomes_RejectEmpty(markdown, source) ==
    IF Len(Split(Characters(markdown))) = 0
    THEN { [kind |-> "raised", error |-> "empty document"] }
    ELSE { [kind |-> "returned", value |-> chunks] : chunks \in ChunkerOutputs }
             \cup { [kind |-> "raised", error |-> e] : e \in ErrMsgs }

\* How self.chunker.chunk(markdown, source) can end.  A markdown without
\* tokens is given to the TextChunker of the default configuration; for any
\* other markdown the chunker may be a substitute.
ChunkerOutcomes(markdown, source) ==
    IF Len(Split(Characters(markdown))) = 0
    THEN { TextChunkerChunk(chunker.chunk_size, chunker.overlap,
                            Characters(markdown), source) }
    ELSE { [kind |-> "returned", value |-> chunks] : chunks \in ChunkerOutputs }
             \cup { [kind |-> "raised", error |-> e] : e \in ErrMsgs }

\* The embedding model maps a text to its vector.
Embedding(text) == IF text = "aa" THEN <<1, 0>> ELSE <<0, 1>>

\* EmbeddingService.embed(texts): one vector per text, in the order of texts.
Embed(texts) == [i \in 1..Len(texts) |-> Embedding(texts[i])]

(***************************************************************************)
(* DocumentIngester.ingest: the frame of one call.                         *)
(*   pc          next stage: idle, convert, chunk, embed, insert, done     *)
(*   calls       the collaborator methods invoked so far, in order         *)
(*   raised      the exceptions collaborators raised: [stage, message]     *)
(*   insert_args the keyword arguments milvus_client.insert received       *)
(*   data        the column arrays Collection.insert received              *)
(*   outcome     how the call ended: returned a record, or raised          *)
(***************************************************************************)
IdleIngest ==
    [pc |-> "idle", file_path |-> "", document_id |-> "", markdown |-> "",
     metadata |-> EmptyDict, chunks |-> <<>>, texts |-> <<>>,
     embeddings |-> <<>>, calls |-> <<>>, raised |-> <<>>,
     insert_args |-> <<>>, data |-> <<>>, outcome |-> [kind |-> "pending"]]

\* The except clause of ingest: the error becomes a 'failed' record.
FailedRecord(document_id, e) ==
    [document_id |-> document_id, status |-> "failed", error |-> e]

\* Slip: a fixed chunk count instead of the number of chunks.
CompletedRecord_FixedCount(document_id, chunks, metadata) ==
    [document_id |-> document_id, status |-> "completed",
     chunk_count |-> 5, source |-> metadata["source"]]

CompletedRecord(document_id, chunks, metadata) ==
    [document_id |-> document_id, status |-> "completed",
     chunk_count |-> Len(chunks), source |-> metadata["source"]]

\* Slip: document_id is applied first, so a document_id key of the chunk or
\* of the document overrides it.
StoredMetadata_IdFirst(chunk_metadata, metadata, document_id) ==
    DictMerge([document_id |-> document_id],
              DictMerge(chunk_metadata, metadata))

\* Slip: the chunk's own metadata is left out of the merge.
StoredMetadata_NoChunkKeys(chunk_metadata, metadata, document_id) ==
    DictMerge(metadata, [document_id |-> document_id])

\* The per-chunk metadata of the insert call:
\* {**chunk.metadata, **metadata, "document_id": document_id}.
StoredMetadata(chunk_metadata, metadata, document_id) ==
    DictMerge(DictMerge(chunk_metadata, metadata),
              [document_id |-> document_id])

Metadatas(chunks, metadata, document_id) ==
    [i \in 1..Len(chunks) |->
        StoredMetadata(chunks[i].metadata, metadata, document_id)]

\* Slip: no except clause, the exception reaches the caller of ingest.
Caught_Reraise(f, stage, e) ==
    [f EXCEPT !.pc = "done",
              !.raised = Append(@, [stage |-> stage, message |-> e]),
              !.outcome = [kind |-> "raised", error |-> e]]

\* Slip: the failed stage is tried again instead of ending the call.
Caught_Retry(f, stage, e) ==
    [f EXCEPT !.raised = Append(@, [stage |-> stage, message |-> e])]

\* except Exception as e: the frame f of a call in which a collaborator of
\* stage raised an Exception whose str() is e.
Caught(f, stage, e) ==
    [f EXCEPT !.pc = "done",
              !.raised = Append(@, [stage |-> stage, message |-> e]),
              !.outcome = [kind |-> "returned",
                           value |-> FailedRecord(f.document_id, e)]]

\* document_id = str(uuid.uuid4())
IngestBegin(t, file_path) ==
    /\ ingest[t].pc = "idle"
    /\ query[t].pc = "idle"
    /\ started < MaxCalls
    /\ started' = started + 1
    /\ uuid_count' = uuid_count + 1
    /\ ingest' = [ingest EXCEPT ![t] =
          [IdleIngest EXCEPT !.pc = "convert",
                             !.file_path = file_path,
                             !.document_id = Uuid(uuid_count + 1)]]
    /\ UNCHANGED <<num_entities, query, components>>

\* converted = self.converter.convert(file_path)
IngestConvert(t) ==
    /\ ingest[t].pc = "convert"
    /\ LET callsNow == Append(ingest[t].calls, "convert") IN
       \/ \E e \in ErrMsgs :
             ingest' = [ingest EXCEPT ![t] =
                 Caught([@ EXCEPT !.calls = callsNow], "convert", e)]
       \/ \E converted \in ConverterOutputs(ingest[t].file_path) :
             ingest' = [ingest EXCEPT ![t] =
                 [@ EXCEPT !.pc = "chunk",
                           !.calls = callsNow,
                           !.markdown = converted.markdown,
                           !.metadata = converted.metadata]]
    /\ UNCHANGED <<uuid_count, num_entities, started, query, components>>

\* chunks = self.chunker.chunk(markdown, metadata["source"])
IngestChunk(t) ==
    /\ ingest[t].pc = "chunk"
    /\ IF "source" \notin DOMAIN ingest[t].metadata
       THEN \* KeyError('source') before the chunker is called
            ingest' = [ingest EXCEPT ![t] =
                [@ EXCEPT !.pc = "done",
                          !.outcome = [kind |-> "returned",
                                       value |-> FailedRecord(ingest[t].document_id,
                                                              "'source'")]]]
       ELSE LET callsNow == Append(ingest[t].calls, "chunk") IN
            \E o \in ChunkerOutcomes(ingest[t].markdown,
                                     ingest[t].metadata["source"]) :
                IF o.kind = "raised"
                THEN ingest' = [ingest EXCEPT ![t] =
                         Caught([@ EXCEPT !.calls = callsNow], "chunk", o.error)]
                ELSE ingest' = [ingest EXCEPT ![t] =
                         [@ EXCEPT !.pc = "embed",
                                   !.calls = callsNow,
                                   !.chunks = o.value]]
    /\ UNCHANGED <<uuid_count, num_entities, started, query, components>>

\* texts = [chunk.text for chunk in chunks]
\* embeddings = await self.embedding_service.embed(texts)
IngestEmbed(t) ==
    /\ ingest[t].pc = "embed"
    /\ LET callsNow == Append(ingest[t].calls, "embed")
           texts == [i \in 1..Len(ingest[t].chunks) |-> ingest[t].chunks[i].text]
       IN
       \/ \E e \in ErrMsgs :
             ingest' = [ingest EXCEPT ![t] =
                 Caught([@ EXCEPT !.calls = callsNow, !.texts = texts], "embed", e)]
       \/ ingest' = [ingest EXCEPT ![t] =
             [@ EXCEPT !.pc = "insert",
                       !.calls = callsNow,
                       !.texts = texts,
                       !.embeddings = Embed(texts)]]
    /\ UNCHANGED <<uuid_count, num_entities, started, query, components>>

\* Slip: one uuid4 for the whole batch, repeated for every row.
InsertData_OneId(embeddings, texts, metadatas, first) ==
    [ids |-> [i \in 1..Len(embeddings) |-> Uuid(first + 1)],
     texts |-> texts, embeddings |-> embeddings, metadatas |-> metadatas]

\* MilvusVectorStore.insert: one uuid4 per embedding, then the four columns.
InsertData(embeddings, texts, metadatas, first) ==
    [ids |-> [i \in 1..Len(embeddings) |-> Uuid(first + i)],
     texts |-> texts, embeddings |-> embeddings, metadatas |-> metadatas]

\* await self.milvus_client.insert(embeddings=, texts=, metadatas=), with
\* MilvusVectorStore.insert and the return of the 'completed' record.
IngestInsert(t) ==
    /\ ingest[t].pc = "insert"
    /\ LET f == ingest[t]
           callsNow == Append(f.calls, "insert")
           args == [embeddings |-> f.embeddings, texts |-> f.texts,
                    metadatas |-> Metadatas(f.chunks, f.metadata, f.document_id)]
           data == InsertData(args.embeddings, args.texts, args.metadatas, uuid_count)
       IN
       /\ uuid_count' = uuid_count + Len(args.embeddings)
       /\ \/ \* self.collection.insert(data) raises
             /\ \E e \in ErrMsgs :
                   ingest' = [ingest EXCEPT ![t] =
                       Caught([@ EXCEPT !.calls = callsNow,
                                        !.insert_args = <<args>>,
                                        !.data = <<data>>], "insert", e)]
             /\ UNCHANGED num_entities
          \/ \* self.collection.insert(data); self.collection.flush()
             /\ ingest' = [ingest EXCEPT ![t] =
                   [@ EXCEPT !.pc = "done",
                             !.calls = callsNow,
                             !.insert_args = <<args>>,
                             !.data = <<data>>,
                             !.outcome = [kind |-> "returned",
                                          value |-> CompletedRecord(f.document_id,
                                                                    f.chunks, f.metadata)]]]
             /\ num_entities' = num_entities + Len(args.embeddings)
    /\ UNCHANGED <<started, query, components>>

\* The caller has the record; the frame of the call is gone.
IngestReturn(t) ==
    /\ ingest[t].pc = "done"
    /\ ingest' = [ingest EXCEPT ![t] = IdleIngest]
    /\ UNCHANGED <<uuid_count, num_entities, started, query, components>>

(***************************************************************************)
(* Collaborators of RAGQueryEngine.                                        *)
(***************************************************************************)
\* A hit of vector_store.search: {text, metadata, score}.
Hits ==
    { [text |-> tx, metadata |-> m, score |-> sc] :
        tx \in HitTexts, m \in HitMetadatas, sc \in HitScores }

\* What vector_store.search can return: a ranked list of hits.
SearchOutputs == UNION { [1..n -> Hits] : n \in 0..MaxHits }

\* sep.join(strs)
RECURSIVE Join(_, _)
Join(sep, strs) ==
    IF Len(strs) = 0 THEN ""
    ELSE IF Len(strs) = 1 THEN strs[1]
    ELSE strs[1] \o sep \o Join(sep, Tail(strs))

\* Slip: the texts are separated by a single newline.
Context_SingleNewline(results) ==
    Join("\n", [i \in 1..Len(results) |-> results[i].text])

\* context = "\n\n".join([r["text"] for r in results])
Context(results) == Join("\n\n", [i \in 1..Len(results) |-> results[i].text])

\* Slip: the sources are listed from the last hit to the first.
Sources_Reversed(results) ==
    [i \in 1..Len(results) |->
        [text |-> results[Len(results) + 1 - i].text,
         score |-> results[Len(results) + 1 - i].score,
         metadata |-> results[Len(results) + 1 - i].metadata]]

\* the sources of the Query Result: text, score and metadata of every hit
Sources(results) ==
    [i \in 1..Len(results) |->
        [text |-> results[i].text, score |-> results[i].score,
         metadata |-> results[i].metadata]]

\* Slip: the answer for no hits is the empty string.
NoHitsResult_EmptyAnswer ==
    [answer |-> "", sources |-> <<>>, retrieved_count |-> 0]

\* if not results: the fixed answer
NoHitsResult ==
    [answer |-> "No relevant documents found.", sources |-> <<>>,
     retrieved_count |-> 0]

QueryResult(answer, results) ==
    [answer |-> answer, sources |-> Sources(results),
     retrieved_count |-> Len(results)]

(***************************************************************************)
(* RAGQueryEngine.query: the frame of one call.                            *)
(*   pc          next stage: idle, embed, search, chat, done               *)
(*   calls       the collaborator methods invoked so far, in order         *)
(*   search_args the arguments vector_store.search received                *)
(*   chat_args   the arguments ollama.chat received                        *)
(*   outcome     how the call ended: returned a result, or raised          *)
(***************************************************************************)
IdleQuery ==
    [pc |-> "idle", question |-> "", top_k |-> 0, query_vector |-> <<>>,
     results |-> <<>>, context |-> "", calls |-> <<>>, raised |-> <<>>,
     search_args |-> <<>>, chat_args |-> <<>>, outcome |-> [kind |-> "pending"]]

\* Slip: a failing collaborator is answered with a result without an answer.
Propagated_Partial(f, stage, e) ==
    [f EXCEPT !.pc = "done",
              !.raised = Append(@, [stage |-> stage, message |-> e]),
              !.outcome = [kind |-> "returned",
                           value |-> QueryResult("", f.results)]]

\* query has no except clause: the frame f of a call in which a collaborator
\* of stage raised an Exception whose str() is e; it reaches the caller.
Propagated(f, stage, e) ==
    [f EXCEPT !.pc = "done",
              !.raised = Append(@, [stage |-> stage, message |-> e]),
              !.outcome = [kind |-> "raised", error |-> e]]

\* Slip: the empty result list is not treated specially.
NoResults_Never(results) == FALSE

\* if not results:
NoResults(results) == Len(results) = 0

\* Slip: search is called with its default top_k.
SearchArgs_DefaultTopK(query_vector, top_k) ==
    [query_vector |-> query_vector, top_k |-> 5]

\* the arguments of self.vector_store.search(query_vector, top_k=top_k)
SearchArgs(query_vector, top_k) ==
    [query_vector |-> query_vector, top_k |-> top_k]

\* the frame of a call of query(question, top_k) that has just begun
BegunQuery(question, top_k) ==
    [IdleQuery EXCEPT !.pc = "embed", !.question = question, !.top_k = top_k]

QueryBegin(t, question, top_k) ==
    /\ query[t].pc = "idle"
    /\ ingest[t].pc = "idle"
    /\ started < MaxCalls
    /\ started' = started + 1
    /\ query' = [query EXCEPT ![t] = BegunQuery(question, top_k)]
    /\ UNCHANGED <<uuid_count, num_entities, ingest, components>>

\* query_vector = await self.embeddings.embed_single(question)
QueryEmbed(t) ==
    /\ query[t].pc = "embed"
    /\ LET callsNow == Append(query[t].calls, "embed_single") IN
       \/ \E e \in ErrMsgs :
             query' = [query EXCEPT ![t] =
                 Propagated([@ EXCEPT !.calls = callsNow], "embed_single", e)]
       \/ query' = [query EXCEPT ![t] =
             [@ EXCEPT !.pc = "search",
                       !.calls = callsNow,
                       !.query_vector = Embed(<<query[t].question>>)[1]]]
    /\ UNCHANGED <<uuid_count, num_entities, started, ingest, components>>

\* results = await self.vector_store.search(query_vector, top_k=top_k)
\* if not results: return the fixed record; else assemble the context
QuerySearch(t) ==
    /\ query[t].pc = "search"
    /\ LET callsNow == Append(query[t].calls, "search")
           args == SearchArgs(query[t].query_vector, query[t].top_k)
       IN
       \/ \E e \in ErrMsgs :
             query' = [query EXCEPT ![t] =
                 Propagated([@ EXCEPT !.calls = callsNow, !.search_args = <<args>>],
                            "search", e)]
       \/ \E results \in SearchOutputs :
             IF NoResults(results)
             THEN query' = [query EXCEPT ![t] =
                      [@ EXCEPT !.pc = "done",
                                !.calls = callsNow,
                                !.search_args = <<args>>,
                                !.results = results,
                                !.outcome = [kind |-> "returned",
                                             value |-> NoHitsResult]]]
             ELSE query' = [query EXCEPT ![t] =
                      [@ EXCEPT !.pc = "chat",
                                !.calls = callsNow,
                                !.search_args = <<args>>,
                                !.results = results,
                                !.context = Context(results)]]
    /\ UNCHANGED <<uuid_count, num_entities, started, ingest, components>>

\* answer = await self.ollama.chat(question, context), and the return
QueryChat(t) ==
    /\ query[t].pc = "chat"
    /\ LET callsNow == Append(query[t].calls, "chat")
           args == [prompt |-> query[t].question, context |-> query[t].context]
       IN
       \/ \E e \in ErrMsgs :
             query' = [query EXCEPT ![t] =
                 Propagated([@ EXCEPT !.calls = callsNow, !.chat_args = <<args>>],
                            "chat", e)]
       \/ \E answer \in Answers :
             query' = [query EXCEPT ![t] =
                 [@ EXCEPT !.pc = "done",
                           !.calls = callsNow,
                           !.chat_args = <<args>>,
                           !.outcome = [kind |-> "returned",
                                        value |-> QueryResult(answer, query[t].results)]]]
    /\ UNCHANGED <<uuid_count, num_entities, started, ingest, components>>

\* The caller has the result or the exception; the frame is gone.
QueryReturn(t) ==
    /\ query[t].pc = "done"
    /\ query' = [query EXCEPT ![t] = IdleQuery]
    /\ UNCHANGED <<uuid_count, num_entities, started, ingest, components>>

(***************************************************************************)
(* SimulatedEvaluator.                                                     *)
(***************************************************************************)
\* the lower-case letter of every upper-case letter
ToLower ==
    ("A" :> "a") @@ ("B" :> "b") @@ ("C" :> "c") @@ ("D" :> "d") @@
    ("E" :> "e") @@ ("F" :> "f") @@ ("G" :> "g") @@ ("H" :> "h") @@
    ("I" :> "i") @@ ("J" :> "j") @@ ("K" :> "k") @@ ("L" :> "l") @@
    ("M" :> "m") @@ ("N" :> "n") @@ ("O" :> "o") @@ ("P" :> "p") @@
    ("Q" :> "q") @@ ("R" :> "r") @@ ("S" :> "s") @@ ("T" :> "t") @@
    ("U" :> "u") @@ ("V" :> "v") @@ ("W" :> "w") @@ ("X" :> "x") @@
    ("Y" :> "y") @@ ("Z" :> "z")

\* str.lower(), one character at a time
Lower(c) == IF c \in DOMAIN ToLower THEN ToLower[c] ELSE c

LowerText(text) == [i \in 1..Len(text) |-> Lower(text[i])]

\* set(text.lower().split())
WordSet(text) ==
    LET words == Split(LowerText(text)) IN { words[i] : i \in 1..Len(words) }

\* response.get(key, default)
Get(response, key, default) ==
    IF key \in DOMAIN response THEN response[key] ELSE default

\* A float is modelled by the rational it stands for, in lowest terms.
RECURSIVE Gcd(_, _)
Gcd(a, b) == IF b = 0 THEN a ELSE Gcd(b, a % b)

Frac(n, d) == LET g == Gcd(n, d) IN [num |-> n \div g, den |-> d \div g]

FracAdd(x, y) == Frac(x.num * y.den + y.num * x.den, x.den * y.den)

FracMul(x, y) == Frac(x.num * y.num, x.den * y.den)

FracLeq(x, y) == x.num * y.den <= y.num * x.den

\* min(x, y)
FracMin(x, y) == IF FracLeq(y, x) THEN y ELSE x

Zero == Frac(0, 1)
One == Frac(1, 1)

\* a score, given in hundredths
Score(hundredths) == Frac(hundredths, 100)

\* sum([s["score"] for s in sources])
RECURSIVE SumScores(_)
SumScores(sources) ==
    IF sources = <<>> THEN Zero
    ELSE FracAdd(Score(sources[1].score), SumScores(Tail(sources)))

Max(a, b) == IF a > b THEN a ELSE b

\* Slip: the words of the answer are compared as written, not in lower case.
Faithfulness_CaseSensitive(answer, sources) ==
    LET sources_text == JoinSpace([i \in 1..Len(sources) |-> sources[i].text])
        written == Split(answer)
        answer_words == { written[i] : i \in 1..Len(written) }
        sources_words == WordSet(sources_text)
        overlap == Cardinality(answer_words \cap sources_words)
    IN FracMin(Frac(overlap, Max(Cardinality(answer_words), 1)), One)

\* faithfulness = min(overlap / max(len(answer_words), 1), 1.0)
Faithfulness(answer, sources) ==
    LET sources_text == JoinSpace([i \in 1..Len(sources) |-> sources[i].text])
        answer_words == WordSet(answer)
        sources_words == WordSet(sources_text)
        overlap == Cardinality(answer_words \cap sources_words)
    IN FracMin(Frac(overlap, Max(Cardinality(answer_words), 1)), One)

\* what stands for the value of a division that raised ZeroDivisionError
ZeroDivision == [num |-> 0, den |-> 0]

\* x / n
Div(x, n) == IF n = 0 THEN ZeroDivision ELSE FracMul(x, Frac(1, n))

\* Slip: the mean is taken without asking whether there are sources.
HasSources_Always(sources) == TRUE

\* if sources:
HasSources(sources) == Len(sources) > 0

\* Slip: the scores are added up and not averaged.
ContextPrecision_Sum(sources) ==
    IF Len(sources) > 0 THEN SumScores(sources) ELSE Zero

\* context_precision = sum(scores) / len(sources) if sources else 0.0
ContextPrecision(sources) ==
    IF HasSources(sources)
    THEN Div(SumScores(sources), Len(sources))
    ELSE Zero

\* Slip: the recall is not clamped.
ContextRecall_Unclamped(sources) == Frac(Len(sources), 5)

\* context_recall = min(len(sources) / 5, 1.0)
ContextRecall(sources) == FracMin(Frac(Len(sources), 5), One)

\* Slip: the overlap is measured against the words of the answer.
Relevance_OverAnswer(query_text, answer) ==
    LET query_words == WordSet(query_text)
        answer_words == WordSet(answer)
    IN Frac(Cardinality(query_words \cap answer_words),
            Max(Cardinality(answer_words), 1))

\* relevance = len(query_words & answer_words) / max(len(query_words), 1)
Relevance(query_text, answer) ==
    LET query_words == WordSet(query_text)
        answer_words == WordSet(answer)
    IN Frac(Cardinality(query_words \cap answer_words),
            Max(Cardinality(query_words), 1))

\* Slip: the four scores weigh the same.
OverallScore_EqualWeights(faithfulness, relevance, context_precision, context_recall) ==
    FracMul(FracAdd(FracAdd(faithfulness, relevance),
                    FracAdd(context_precision, context_recall)),
            Frac(1, 4))

\* faithfulness * 0.3 + relevance * 0.3 + context_precision * 0.2
\*   + context_recall * 0.2
OverallScore(faithfulness, relevance, context_precision, context_recall) ==
    FracAdd(FracAdd(FracAdd(FracMul(faithfulness, Frac(3, 10)),
                            FracMul(relevance, Frac(3, 10))),
                    FracMul(context_precision, Frac(2, 10))),
            FracMul(context_recall, Frac(2, 10)))

\* SimulatedEvaluator.evaluate_query(query, response): the record returned
EvaluateQuery(query_text, response) ==
    LET sources == Get(response, "sources", <<>>)
        answer == Get(response, "answer", <<>>)
        faithfulness == Faithfulness(answer, sources)
        context_precision == ContextPrecision(sources)
        context_recall == ContextRecall(sources)
        relevance == Relevance(query_text, answer)
    IN IF context_precision = ZeroDivision
       THEN [kind |-> "raised", error |-> "division by zero"]
       ELSE [kind |-> "returned",
             value |-> [faithfulness |-> faithfulness,
                        context_precision |-> context_precision,
                        context_recall |-> context_recall,
                        answer_relevance |-> relevance,
                        overall_score |-> OverallScore(faithfulness, relevance,
                                                       context_precision, context_recall)]]

\* the strings of at most n characters over an alphabet
RECURSIVE StringsUpTo(_, _)
StringsUpTo(alphabet, n) ==
    IF n = 0 THEN {<<>>}
    ELSE LET shorter == StringsUpTo(alphabet, n - 1) IN
         shorter \cup { Append(tx, c) : tx \in { u \in shorter : Len(u) = n - 1 },
                                        c \in alphabet }

\* the queries: every short string, and two queries of two words
EvalQueries ==
    StringsUpTo({"a", "A", " "}, MaxQueryLen)
        \cup { <<"a", " ", "b">>, <<"B", " ", "A">> }
EvalAnswers == StringsUpTo({"a", "A", "b", " "}, MaxAnswerLen)

\* the sources a response can list: a text and a score in hundredths
EvalSources ==
    { [text |-> <<"a">>, score |-> 100],
      [text |-> <<"A", " ", "b">>, score |-> 50] }

\* lists of up to MaxSources sources, and lists of 5 and 6 equal sources
EvalSourceLists ==
    UNION { [1..n -> EvalSources] : n \in 0..MaxSources }
        \cup { [i \in 1..n |-> src] : n \in {5, 6}, src \in EvalSources }

\* the responses: with both keys, or lacking one or both of them
EvalResponses ==
    { [answer |-> answer, sources |-> sources] :
        answer \in EvalAnswers, sources \in EvalSourceLists }
        \cup { [answer |-> answer] : answer \in EvalAnswers }
        \cup { [sources |-> sources] : sources \in EvalSourceLists }
        \cup { EmptyDict }

\* An evaluator before any call of evaluate_query.
IdleEvaluator ==
    [query |-> <<>>, response |-> EmptyDict, outcome |-> [kind |-> "pending"]]

\* evaluation = await evaluator.evaluate_query(query, response)
EvaluatorEvaluate ==
    /\ evaluator.outcome.kind = "pending"
    /\ evaluator' = [evaluator EXCEPT !.outcome =
          EvaluateQuery(evaluator.query, evaluator.response)]
    /\ UNCHANGED <<pipelines, chunker, application>>

(***************************************************************************)
(* The API application (api/main.py): one frame per request handler.       *)
(*   pc          idle, query (in rag_engine.query), ingest (the upload is  *)
(*               copied), done (the response is ready)                     *)
(*   calls       what the handler called so far, in order                  *)
(*   result      the outcome of rag_engine.query, once it has ended        *)
(*   response    the HTTP response, once there is one                      *)
(* collection is vector_store.collection: "None" until create_collection.  *)
(* tmp_files are the temporary files that exist.                           *)
(***************************************************************************)
ApiQuestions == {"what", "No documents", "why found", "is it found."}
Uploads == {"sample.md", "docs/x.md"}

QueryRequests ==
    { [query |-> question, top_k |-> top_k] :
        question \in ApiQuestions, top_k \in TopKs }

IdleHandler ==
    [pc |-> "idle", request |-> EmptyDict, tmp_path |-> "", calls |-> <<>>,
     result |-> <<>>, response |-> <<>>]

ApplicationInit ==
    /\ api = [t \in Tasks |-> IdleHandler]
    /\ collection = "None"
    /\ tmp_files = {}

\* raise HTTPException(status_code=500, detail=str(e))
HttpError(e) == [status_code |-> 500, detail |-> e]

\* the sources of a Query Result as the evaluator reads them
EvaluatedSources(sources) ==
    [i \in 1..Len(sources) |->
        [text |-> Characters(sources[i].text), score |-> sources[i].score]]

\* evaluator.evaluate_query(request.query, result)
Evaluation(request, result) ==
    EvaluateQuery(Characters(request.query),
                  [answer |-> Characters(result.answer),
                   sources |-> EvaluatedSources(result.sources)])

\* Slip: the answer for no hits is returned without scores.
QueryResponseBody_NoHitsUnscored(request, result, evaluation) ==
    IF result.retrieved_count = 0
    THEN [query |-> request.query, answer |-> result.answer,
          sources |-> result.sources, retrieved_count |-> result.retrieved_count]
    ELSE [query |-> request.query, answer |-> result.answer,
          sources |-> result.sources, retrieved_count |-> result.retrieved_count,
          evaluation |-> evaluation]

\* the dictionary query_rag returns
QueryResponseBody(request, result, evaluation) ==
    [query |-> request.query, answer |-> result.answer,
     sources |-> result.sources, retrieved_count |-> result.retrieved_count,
     evaluation |-> evaluation]

\* the mock result of ingest_document
IngestResponseBody(document_id, filename) ==
    [document_id |-> document_id, status |-> "completed", chunk_count |-> 5,
     source |-> filename]

\* tempfile.NamedTemporaryFile(delete=False, suffix=file.filename): a name
\* no other file has, in the directory of temporary files, ending with the
\* suffix; t is the handler that asks
TmpPath(t, filename) == "/tmp/tmp" \o ToString(t) \o filename

\* The file is opened at TmpPath: with a separator in the suffix the path
\* lies in a directory that does not exist, and open raises
\* FileNotFoundError.
Creatable(filename) ==
    \A i \in 1..Len(Characters(filename)) : Characters(filename)[i] # "/"

\* the response to a request whose handler raised something that is not an
\* HTTPException
ServerError == [status_code |-> 500, text |-> "Internal Server Error"]

\* if tmp_path.exists(): tmp_path.unlink()
Unlinked(files, tmp_path) == files \ {tmp_path}

\* no request is being handled
ApiQuiescent == \A t \in Tasks : api[t].pc = "idle"

\* vector_store.connect(); vector_store.create_collection().  Nothing in
\* the application calls them; whoever prepares the store has to.
VectorStoreCreateCollection ==
    /\ collection = "None"
    /\ ApiQuiescent
    /\ collection' = "documents"
    /\ UNCHANGED <<pipelines, chunker, evaluator, api, tmp_files>>

\* POST /query: result = await rag_engine.query(request.query, request.top_k)
ApiQueryRag(t, request) ==
    /\ api[t].pc = "idle"
    /\ query[t].pc = "idle"
    /\ ingest[t].pc = "idle"
    /\ started < MaxCalls
    /\ started' = started + 1
    /\ api' = [api EXCEPT ![t] =
          [IdleHandler EXCEPT !.pc = "query", !.request = request,
                              !.calls = <<"query">>]]
    /\ query' = [query EXCEPT ![t] = BegunQuery(request.query, request.top_k)]
    /\ UNCHANGED <<uuid_count, num_entities, ingest, chunker, evaluator,
                   collection, tmp_files>>

\* MilvusVectorStore.search: self.collection.load() comes first, and
\* self.collection is None unless create_collection has been called.
VectorStoreSearch(t) ==
    IF collection = "None"
    THEN /\ query[t].pc = "search"
         /\ query' = [query EXCEPT ![t] =
               Propagated([@ EXCEPT !.calls = Append(@, "search"),
                                    !.search_args =
                                        <<SearchArgs(query[t].query_vector,
                                                     query[t].top_k)>>],
                          "search",
                          "'NoneType' object has no attribute 'load'")]
         /\ UNCHANGED <<uuid_count, num_entities, started, ingest, components>>
    ELSE QuerySearch(t)

\* rag_engine.query has ended: the evaluation and the returned dictionary,
\* or the except clause
ApiQueryRespond(t) ==
    /\ api[t].pc = "query"
    /\ query[t].pc = "done"
    /\ LET outcome == query[t].outcome
           request == api[t].request
       IN
       IF outcome.kind = "raised"
       THEN api' = [api EXCEPT ![t] =
                [@ EXCEPT !.pc = "done",
                          !.result = <<outcome>>,
                          !.response = <<HttpError(outcome.error)>>]]
       ELSE LET evaluation == Evaluation(request, outcome.value) IN
            api' = [api EXCEPT ![t] =
                [@ EXCEPT !.pc = "done",
                          !.calls = Append(@, "evaluate_query"),
                          !.result = <<outcome>>,
                          !.response =
                              IF evaluation.kind = "raised"
                              THEN <<HttpError(evaluation.error)>>
                              ELSE << [status_code |-> 200,
                                       body |-> QueryResponseBody(request,
                                                    outcome.value,
                                                    evaluation.value)] >>]]
    /\ query' = [query EXCEPT ![t] = IdleQuery]
    /\ UNCHANGED <<uuid_count, num_entities, started, ingest, chunker, evaluator,
                   collection, tmp_files>>

\* POST /ingest: the upload is copied to a temporary file.  The file is
\* created before the try statement: what creating it raises is not caught.
ApiIngestUpload(t, filename) ==
    /\ api[t].pc = "idle"
    /\ query[t].pc = "idle"
    /\ ingest[t].pc = "idle"
    /\ started < MaxCalls
    /\ started' = started + 1
    /\ IF Creatable(filename)
       THEN /\ api' = [api EXCEPT ![t] =
                 [IdleHandler EXCEPT !.pc = "ingest",
                                     !.request = [filename |-> filename],
                                     !.tmp_path = TmpPath(t, filename)]]
            /\ tmp_files' = tmp_files \cup {TmpPath(t, filename)}
       ELSE /\ api' = [api EXCEPT ![t] =
                 [IdleHandler EXCEPT !.pc = "done",
                                     !.request = [filename |-> filename],
                                     !.response = <<ServerError>>]]
            /\ tmp_files' = tmp_files
    /\ UNCHANGED <<uuid_count, num_entities, ingest, query, chunker, evaluator,
                   collection>>

\* document_id = str(uuid.uuid4()); the mock response; finally: unlink
ApiIngestRespond(t) ==
    /\ api[t].pc = "ingest"
    /\ uuid_count' = uuid_count + 1
    /\ api' = [api EXCEPT ![t] =
          [@ EXCEPT !.pc = "done",
                    !.response =
                        << [status_code |-> 200,
                            body |-> IngestResponseBody(Uuid(uuid_count + 1),
                                         api[t].request.filename)] >>]]
    /\ tmp_files' = Unlinked(tmp_files, api[t].tmp_path)
    /\ UNCHANGED <<num_entities, started, ingest, query, chunker, evaluator,
                   collection>>

\* The client has the response; the frame of the handler is gone.
ApiDone(t) ==
    /\ api[t].pc = "done"
    /\ api' = [api EXCEPT ![t] = IdleHandler]
    /\ UNCHANGED <<pipelines, chunker, evaluator, collection, tmp_files>>

(***************************************************************************)
(* The system: pipeline invocations made one after the other.              *)
(***************************************************************************)
Init ==
    /\ uuid_count = 0
    /\ num_entities = 0
    /\ started = 0
    /\ ingest = [t \in Tasks |-> IdleIngest]
    /\ query = [t \in Tasks |-> IdleQuery]
    /\ chunker = IdleChunker
    /\ evaluator = IdleEvaluator
    /\ ApplicationInit

\* no invocation is in flight
Quiescent ==
    \A t \in Tasks : ingest[t].pc = "idle" /\ query[t].pc = "idle"

\* a new invocation takes the first free frame
FirstFree(t) ==
    /\ ingest[t].pc = "idle" /\ query[t].pc = "idle"
    /\ \A u \in 1..(t - 1) : ingest[u].pc # "idle" \/ query[u].pc # "idle"

Next ==
    \/ \E t \in Tasks, file_path \in Paths :
          Quiescent /\ FirstFree(t) /\ IngestBegin(t, file_path)
    \/ \E t \in Tasks : IngestConvert(t)
    \/ \E t \in Tasks : IngestChunk(t)
    \/ \E t \in Tasks : IngestEmbed(t)
    \/ \E t \in Tasks : IngestInsert(t)
    \/ \E t \in Tasks : IngestReturn(t)
    \/ \E t \in Tasks, question \in Questions, top_k \in TopKs :
          Quiescent /\ FirstFree(t) /\ QueryBegin(t, question, top_k)
    \/ \E t \in Tasks : QueryEmbed(t)
    \/ \E t \in Tasks : QuerySearch(t)
    \/ \E t \in Tasks : QueryChat(t)
    \/ \E t \in Tasks : QueryReturn(t)

Spec == Init /\ [][Next]_vars

(***************************************************************************)
(* Concurrent invocations: a call may begin while others are suspended at  *)
(* a gateway call, and the suspended calls resume in any order.  The       *)
(* collaborators answer as a function of what they are asked, so that what *)
(* belongs to which call can be told: the converter as MarkItDownConverter *)
(* does, the chunker with one chunk for x.pdf and two for any other file,  *)
(* the vector store with one hit for "what" and two for any other          *)
(* question, a failing collaborator with the message "Service failed".     *)
(***************************************************************************)
ConcurrentMetadata(file_path) ==
    [source |-> file_path, format |-> Format(file_path), char_count |-> 15]

ConcurrentChunks(file_path) ==
    IF file_path = "x.pdf"
    THEN << [text |-> "aa", metadata |-> [chunk_index |-> 0]] >>
    ELSE << [text |-> "bb", metadata |-> [chunk_index |-> 0]],
            [text |-> "aa", metadata |-> [chunk_index |-> 1]] >>

ConcurrentHits(question) ==
    IF question = "what"
    THEN << [text |-> "First document", metadata |-> [source |-> "x.pdf"],
             score |-> 90] >>
    ELSE << [text |-> "Second document", metadata |-> [source |-> "x.pdf"],
             score |-> 90],
            [text |-> "First document", metadata |-> [source |-> "x.pdf"],
             score |-> 50] >>

ConcurrentAnswer(question) == IF question = "what" THEN "First answer" ELSE ""

\* the frame f of an ingest call whose collaborators answered as above
ConcurrentIngest(f) ==
    /\ \A i \in 1..Len(f.raised) : f.raised[i].message = "Service failed"
    /\ f.pc = "chunk" =>
          /\ f.markdown = "# Test Document"
          /\ f.metadata = ConcurrentMetadata(f.file_path)
    /\ f.pc = "embed" => f.chunks = ConcurrentChunks(f.file_path)

\* the frame q of a query call whose collaborators answered as above
ConcurrentQuery(q) ==
    /\ \A i \in 1..Len(q.raised) : q.raised[i].message = "Service failed"
    /\ q.pc = "chat" => q.results = ConcurrentHits(q.question)
    /\ (q.pc = "done" /\ q.outcome.kind = "returned") =>
          /\ q.results = ConcurrentHits(q.question)
          /\ q.outcome.value.answer = ConcurrentAnswer(q.question)

ConcurrentNext ==
    \/ \E t \in Tasks, file_path \in Paths :
          FirstFree(t) /\ IngestBegin(t, file_path)
    \/ \E t \in Tasks : IngestConvert(t) /\ ConcurrentIngest(ingest'[t])
    \/ \E t \in Tasks : IngestChunk(t) /\ ConcurrentIngest(ingest'[t])
    \/ \E t \in Tasks : IngestEmbed(t) /\ ConcurrentIngest(ingest'[t])
    \/ \E t \in Tasks : IngestInsert(t) /\ ConcurrentIngest(ingest'[t])
    \/ \E t \in Tasks : IngestReturn(t)
    \/ \E t \in Tasks, question \in Questions :
          FirstFree(t) /\ QueryBegin(t, question, 5)
    \/ \E t \in Tasks : QueryEmbed(t) /\ ConcurrentQuery(query'[t])
    \/ \E t \in Tasks : QuerySearch(t) /\ ConcurrentQuery(query'[t])
    \/ \E t \in Tasks : QueryChat(t) /\ ConcurrentQuery(query'[t])
    \/ \E t \in Tasks : QueryReturn(t)

ConcurrentSpec == Init /\ [][ConcurrentNext]_vars

(***************************************************************************)
(* The API application: requests handled one after the other.              *)
(***************************************************************************)
ApiNext ==
    \/ VectorStoreCreateCollection
    \/ \E t \in Tasks, request \in QueryRequests :
          ApiQuiescent /\ FirstFree(t) /\ ApiQueryRag(t, request)
    \/ \E t \in Tasks : QueryEmbed(t)
    \/ \E t \in Tasks : VectorStoreSearch(t)
    \/ \E t \in Tasks : QueryChat(t)
    \/ \E t \in Tasks : ApiQueryRespond(t)
    \/ \E t \in Tasks, filename \in Uploads :
          ApiQuiescent /\ FirstFree(t) /\ ApiIngestUpload(t, filename)
    \/ \E t \in Tasks : ApiIngestRespond(t)
    \/ \E t \in Tasks : ApiDone(t)

ApiSpec == Init /\ [][ApiNext]_vars

(***************************************************************************)
(* The chunker on its own: a chunker of any configuration is given any     *)
(* text.                                                                   *)
(***************************************************************************)
ChunkerInit ==
    /\ uuid_count = 0
    /\ num_entities = 0
    /\ started = 0
    /\ ingest = [t \in Tasks |-> IdleIngest]
    /\ query = [t \in Tasks |-> IdleQuery]
    /\ evaluator = IdleEvaluator
    /\ ApplicationInit
    /\ \E chunk_size \in ChunkSizes, overlap \in Overlaps,
          text \in TextsUpTo(MaxTextLen), source \in ChunkSources :
          chunker = [chunk_size |-> chunk_size, overlap |-> overlap,
                     text |-> text, source |-> source,
                     outcome |-> [kind |-> "pending"]]

ChunkerNext == ChunkerChunk

ChunkerSpec == ChunkerInit /\ [][ChunkerNext]_vars

(***************************************************************************)
(* The evaluator on its own: any query and any response are evaluated.     *)
(***************************************************************************)
EvaluatorInit ==
    /\ uuid_count = 0
    /\ num_entities = 0
    /\ started = 0
    /\ ingest = [t \in Tasks |-> IdleIngest]
    /\ query = [t \in Tasks |-> IdleQuery]
    /\ chunker = IdleChunker
    /\ ApplicationInit
    /\ \E q \in EvalQueries, response \in EvalResponses :
          evaluator = [query |-> q, response |-> response,
                       outcome |-> [kind |-> "pending"]]

EvaluatorNext == EvaluatorEvaluate

EvaluatorSpec == EvaluatorInit /\ [][EvaluatorNext]_vars

(***************************************************************************)
(* Properties of the ingestion pipeline.                                   *)
(***************************************************************************)
Stages == <<"convert", "chunk", "embed", "insert">>

IsPrefix(s, r) ==
    /\ Len(s) <= Len(r)
    /\ \A i \in 1..Len(s) : s[i] = r[i]

\* the collaborator of stage raised in the call of frame f
RaisedIn(f, stage) == f.raised # <<>> /\ f.raised[1].stage = stage

C2_ConverterFailureShortCircuits ==
    \A t \in Tasks :
        LET f == ingest[t] IN
        (f.pc = "done" /\ RaisedIn(f, "convert")) =>
            /\ f.calls = <<"convert">>
            /\ f.outcome.kind = "returned"
            /\ f.outcome.value.status = "failed"
            /\ "error" \in DOMAIN f.outcome.value
            /\ f.outcome.value.error # ""

C4_ChunkKeysTakePrecedence ==
    \A t \in Tasks :
        LET f == ingest[t] IN
        (f.insert_args # <<>>) =>
            \A i \in 1..Len(f.chunks) :
                \A k \in ((DOMAIN f.chunks[i].metadata) \cap (DOMAIN f.metadata))
                            \ {"document_id"} :
                    (f.chunks[i].metadata[k] # f.metadata[k]) =>
                        f.insert_args[1].metadatas[i][k] = f.chunks[i].metadata[k]

\* C5: every metadata entry passed to the vector index insert carries a
\* document_id equal to the document_id of the record the same call
\* returns, also when the chunk metadata or the document metadata bring a
\* document_id key of their own.
C5_DocumentIdAlwaysWins ==
    \A t \in Tasks :
        LET f == ingest[t] IN
        (f.insert_args # <<>>) =>
            /\ f.outcome.kind = "returned"
            /\ \A i \in 1..Len(f.insert_args[1].metadatas) :
                  /\ "document_id" \in DOMAIN f.insert_args[1].metadatas[i]
                  /\ f.insert_args[1].metadatas[i]["document_id"]
                        = f.outcome.value.document_id
            /\ \A i \in 1..Len(f.data[1].metadatas) :
                  /\ "document_id" \in DOMAIN f.data[1].metadatas[i]
                  /\ f.data[1].metadatas[i]["document_id"]
                        = f.outcome.value.document_id

\* insert received a chunk whose own metadata and whose document metadata
\* both had a document_id key with another value
C5_Witness ==
    \E t \in Tasks :
        LET f == ingest[t] IN
        /\ f.insert_args # <<>>
        /\ Len(f.chunks) >= 1
        /\ "document_id" \in DOMAIN f.chunks[1].metadata
        /\ "document_id" \in DOMAIN f.metadata
        /\ f.chunks[1].metadata["document_id"] # f.document_id
        /\ f.metadata["document_id"] # f.document_id

\* C6 as stated: the stored metadata of a chunk has exactly the keys of the
\* chunk metadata, of the document metadata and document_id, and every key
\* that occurs in only one of the two inputs keeps its value.
C6_StoredMetadataIsUnion ==
    \A t \in Tasks :
        LET f == ingest[t] IN
        (f.insert_args # <<>>) =>
            \A i \in 1..Len(f.chunks) :
                LET c == f.chunks[i].metadata
                    m == f.metadata
                    stored == f.insert_args[1].metadatas[i]
                IN
                /\ DOMAIN stored = (DOMAIN c) \cup (DOMAIN m) \cup {"document_id"}
                /\ \A k \in (DOMAIN c) \ (DOMAIN m) : stored[k] = c[k]
                /\ \A k \in (DOMAIN m) \ (DOMAIN c) : stored[k] = m[k]

\* C6 amended: the stored metadata of a chunk has exactly the keys of the
\* chunk metadata, of the document metadata and document_id, and every key
\* other than document_id that occurs in only one of the two inputs keeps
\* its value; document_id holds the identifier of the call.
C6_StoredMetadataIsUnionExceptId ==
    \A t \in Tasks :
        LET f == ingest[t] IN
        (f.insert_args # <<>>) =>
            /\ Len(f.insert_args[1].metadatas) = Len(f.chunks)
            /\ \A i \in 1..Len(f.chunks) :
                  LET c == f.chunks[i].metadata
                      m == f.metadata
                      stored == f.insert_args[1].metadatas[i]
                  IN
                  /\ DOMAIN stored = (DOMAIN c) \cup (DOMAIN m) \cup {"document_id"}
                  /\ \A k \in ((DOMAIN c) \ (DOMAIN m)) \ {"document_id"} :
                        stored[k] = c[k]
                  /\ \A k \in ((DOMAIN m) \ (DOMAIN c)) \ {"document_id"} :
                        stored[k] = m[k]
                  /\ stored["document_id"] = f.document_id

\* insert received a chunk that alone had chunk_index, char_count and a
\* document_id of its own, for a document that alone had format
C6_Witness ==
    \E t \in Tasks :
        LET f == ingest[t] IN
        /\ f.insert_args # <<>>
        /\ Len(f.chunks) >= 1
        /\ {"chunk_index", "char_count", "document_id"}
              \subseteq (DOMAIN f.chunks[1].metadata) \ (DOMAIN f.metadata)
        /\ "format" \in (DOMAIN f.metadata) \ (DOMAIN f.chunks[1].metadata)

\* C7: when every stage succeeds ingest returns exactly {document_id,
\* status 'completed', chunk_count, source}; chunk_count is the number of
\* chunks the chunker produced, which is the number of texts and of metadata
\* entries passed to insert, and source is the document metadata's source.
\* A 'completed' record has no error field, a 'failed' record has no
\* chunk_count and no source.
C7_CompletedRecordShape ==
    \A t \in Tasks :
        LET f == ingest[t] IN
        (f.outcome.kind = "returned") =>
            LET r == f.outcome.value IN
            /\ (f.calls = Stages /\ f.raised = <<>>) => r.status = "completed"
            /\ (r.status = "completed") =>
                  /\ DOMAIN r = {"document_id", "status", "chunk_count", "source"}
                  /\ r.document_id = f.document_id
                  /\ r.chunk_count = Len(f.chunks)
                  /\ f.insert_args # <<>>
                  /\ r.chunk_count = Len(f.insert_args[1].texts)
                  /\ r.chunk_count = Len(f.insert_args[1].metadatas)
                  /\ r.source = f.metadata["source"]
            /\ (r.status = "failed") =>
                  DOMAIN r = {"document_id", "status", "error"}

\* a call completed for a document of two chunks
C7_Witness ==
    \E t \in Tasks :
        /\ ingest[t].outcome.kind = "returned"
        /\ ingest[t].outcome.value.status = "completed"
        /\ ingest[t].outcome.value.chunk_count = 2
        /\ ingest[t].outcome.value.source = "y.md"

\* C8: on a successful ingest the collection receives four arrays of length
\* len(chunks): ids, texts, embedding vectors and metadatas, row i belonging
\* to chunk i; the ids are pairwise distinct and freshly generated (none is
\* the document_id or an identifier generated earlier).
C8_InsertParallelArrays ==
    \A t \in Tasks :
        LET f == ingest[t] IN
        (f.outcome.kind = "returned" /\ f.outcome.value.status = "completed") =>
            /\ f.data # <<>>
            /\ LET d == f.data[1]
                   n == Len(f.chunks)
               IN
               /\ DOMAIN d = {"ids", "texts", "embeddings", "metadatas"}
               /\ Len(d.ids) = n
               /\ Len(d.texts) = n
               /\ Len(d.embeddings) = n
               /\ Len(d.metadatas) = n
               /\ \A i \in 1..n :
                     /\ d.texts[i] = f.chunks[i].text
                     /\ d.embeddings[i] = Embedding(f.chunks[i].text)
                     /\ d.metadatas[i]["chunk_index"]
                           = f.chunks[i].metadata["chunk_index"]
                     /\ d.ids[i] # f.document_id
                     /\ \A j \in 1..(uuid_count - n) : d.ids[i] # Uuid(j)
               /\ \A i, j \in 1..n : (i # j) => (d.ids[i] # d.ids[j])

\* a second call completed for a document of two chunks with different texts
C8_Witness ==
    \E t \in Tasks :
        LET f == ingest[t] IN
        /\ f.outcome.kind = "returned"
        /\ f.outcome.value.status = "completed"
        /\ Len(f.chunks) = 2
        /\ f.chunks[1].text # f.chunks[2].text
        /\ f.document_id # Uuid(1)

(***************************************************************************)
(* Properties of the query pipeline.                                       *)
(***************************************************************************)
Invoked(f, method) == \E i \in 1..Len(f.calls) : f.calls[i] = method

\* search returned (did not raise) in the call of frame q
SearchReturned(q) == Invoked(q, "search") /\ ~RaisedIn(q, "search")

\* C9: if search returns zero hits, query returns exactly {answer: 'No
\* relevant documents found.', sources: [], retrieved_count: 0} and the
\* Generation Gateway is not invoked in that call; the Generation Gateway
\* is invoked only in calls whose search returned at least one hit.
C9_NoHitsSkipsGeneration ==
    \A t \in Tasks :
        LET q == query[t] IN
        /\ (SearchReturned(q) /\ Len(q.results) = 0) =>
              /\ q.pc = "done"
              /\ q.outcome =
                    [kind |-> "returned",
                     value |-> [answer |-> "No relevant documents found.",
                                sources |-> <<>>,
                                retrieved_count |-> 0]]
              /\ ~Invoked(q, "chat")
              /\ q.chat_args = <<>>
        /\ (Invoked(q, "chat") \/ q.chat_args # <<>>) =>
              (SearchReturned(q) /\ Len(q.results) >= 1)

\* a query whose search returned zero hits has ended
C9_Witness ==
    \E t \in Tasks :
        /\ query[t].pc = "done"
        /\ SearchReturned(query[t])
        /\ Len(query[t].results) = 0

\* the texts of the first n hits, each followed by a blank line and the next
RECURSIVE TextsThrough(_, _)
TextsThrough(results, n) ==
    IF n = 1 THEN results[1].text
    ELSE TextsThrough(results, n - 1) \o "\n\n" \o results[n].text

\* C10: for a non-empty hit list the Generation Gateway is called with the
\* original question and with a context that is the hits' text fields, all
\* of them, in the order received, joined by a double newline; the hits
\* 'First document', 'Second document' give
\* 'First document\n\nSecond document'.
C10_ContextJoinsHitTexts ==
    \A t \in Tasks :
        LET q == query[t] IN
        (q.chat_args # <<>>) =>
            /\ Len(q.results) >= 1
            /\ q.chat_args[1].prompt = q.question
            /\ q.chat_args[1].context = TextsThrough(q.results, Len(q.results))
            /\ (/\ Len(q.results) = 2
                /\ q.results[1].text = "First document"
                /\ q.results[2].text = "Second document")
                  => q.chat_args[1].context = "First document\n\nSecond document"
            /\ (/\ Len(q.results) = 2
                /\ q.results[1].text = "Second document"
                /\ q.results[2].text = "Second document")
                  => q.chat_args[1].context = "Second document\n\nSecond document"

\* chat was called for the hits 'First document', 'Second document', the
\* lower-scored hit ranked first
C10_Witness ==
    \E t \in Tasks :
        LET q == query[t] IN
        /\ q.chat_args # <<>>
        /\ Len(q.results) = 2
        /\ q.results[1].text = "First document"
        /\ q.results[2].text = "Second document"
        /\ q.results[1].score < q.results[2].score

(***************************************************************************)
(* C11: in every returned Query Result retrieved_count equals the length   *)
(* of sources and the number of hits the search returned, and sources[i]   *)
(* holds exactly the text, score and metadata of hit i, in rank order.     *)
(***************************************************************************)
C11_SourcesMirrorHits ==
    \A t \in Tasks :
        LET q == query[t] IN
        q.outcome.kind = "returned" =>
            LET r == q.outcome.value IN
            /\ r.retrieved_count = Len(r.sources)
            /\ r.retrieved_count = Len(q.results)
            /\ \A i \in 1..Len(q.results) :
                  /\ DOMAIN r.sources[i] = {"text", "score", "metadata"}
                  /\ r.sources[i].text = q.results[i].text
                  /\ r.sources[i].score = q.results[i].score
                  /\ r.sources[i].metadata = q.results[i].metadata

\* a result for two hits that differ in text and score
C11_Witness ==
    \E t \in Tasks :
        /\ query[t].outcome.kind = "returned"
        /\ Len(query[t].results) = 2
        /\ query[t].results[1].text # query[t].results[2].text
        /\ query[t].results[1].score # query[t].results[2].score
        /\ query[t].outcome.value.retrieved_count = 2

(***************************************************************************)
(* C12: query does not recover from a gateway failure.  When embedding     *)
(* the question fails the exception reaches the caller and neither search  *)
(* nor generation is invoked; when generation fails the exception reaches  *)
(* the caller and no result is returned; a returned result lacks a         *)
(* generated answer only when the search returned no hit.                  *)
(***************************************************************************)
C12_GatewayFailuresPropagate ==
    \A t \in Tasks :
        LET q == query[t] IN
        /\ RaisedIn(q, "embed_single") =>
              /\ q.calls = <<"embed_single">>
              /\ q.outcome = [kind |-> "raised", error |-> q.raised[1].message]
        /\ RaisedIn(q, "chat") =>
              /\ q.outcome = [kind |-> "raised", error |-> q.raised[1].message]
              /\ Len(q.raised) = 1
        /\ q.outcome.kind = "returned" =>
              /\ q.raised = <<>>
              /\ IF Invoked(q, "chat")
                 THEN /\ q.calls = <<"embed_single", "search", "chat">>
                      /\ Len(q.results) > 0
                 ELSE /\ SearchReturned(q)
                      /\ Len(q.results) = 0
                      /\ q.outcome.value = NoHitsResult

\* a call ended by a failing generation after a search with hits
C12_Witness ==
    \E t \in Tasks :
        /\ RaisedIn(query[t], "chat")
        /\ Len(query[t].results) > 0
        /\ query[t].outcome.kind = "raised"

(***************************************************************************)
(* C13: search receives the top_k of the caller unchanged, and the result  *)
(* lists every hit the search returned, in the order returned: none is     *)
(* dropped, none is added, none is moved.                                  *)
(***************************************************************************)
C13_TopKPassedHitsUnfiltered ==
    \A t \in Tasks :
        LET q == query[t] IN
        /\ Invoked(q, "search") =>
              /\ Len(q.search_args) = 1
              /\ q.search_args[1].top_k = q.top_k
        /\ q.outcome.kind = "returned" =>
              [i \in 1..Len(q.outcome.value.sources) |->
                    [text |-> q.outcome.value.sources[i].text,
                     metadata |-> q.outcome.value.sources[i].metadata,
                     score |-> q.outcome.value.sources[i].score]] = q.results

\* a call with top_k = 1 whose search returned two hits, both in the result
C13_Witness ==
    \E t \in Tasks :
        /\ query[t].top_k = 1
        /\ query[t].search_args # <<>>
        /\ query[t].search_args[1].top_k = 1
        /\ Len(query[t].results) = 2
        /\ query[t].outcome.kind = "returned"
        /\ Len(query[t].outcome.value.sources) = 2

(***************************************************************************)
(* Claims about TextChunker.chunk, read on the chunker after its call.     *)
(***************************************************************************)
ChunkerCalled == chunker.outcome.kind # "pending"

Tokens == Split(chunker.text)

Min(a, b) == IF a < b THEN a ELSE b

\* the number of characters of the words of a list, taken together
RECURSIVE SumLen(_)
SumLen(words) == IF words = <<>> THEN 0 ELSE Len(words[1]) + SumLen(Tail(words))

\* the tokens a chunk holds
ChunkTokens(c) == Split(c.text)

(***************************************************************************)
(* C14: for n tokens and stride = chunk_size - overlap >= 1, chunk returns *)
(* exactly ceil(n / stride) chunks in order; chunk i (from 0) starts at    *)
(* token offset i * stride and holds min(chunk_size, n - i * stride)       *)
(* consecutive tokens joined by single spaces, its chunk_index is i and    *)
(* its char_count is the length of its text; a text without tokens yields  *)
(* the empty sequence and no error.                                        *)
(***************************************************************************)
C14_ChunkCountAndContent ==
    ChunkerCalled =>
        LET n == Len(Tokens)
            stride == chunker.chunk_size - chunker.overlap
        IN
        /\ n = 0 => chunker.outcome = [kind |-> "returned", value |-> <<>>]
        /\ stride >= 1 =>
              /\ chunker.outcome.kind = "returned"
              /\ Len(chunker.outcome.value) = (n + stride - 1) \div stride
              /\ \A k \in 1..Len(chunker.outcome.value) :
                    LET c == chunker.outcome.value[k]
                        i == k - 1
                        count == Min(chunker.chunk_size, n - i * stride)
                        held == SubSeq(Tokens, i * stride + 1, i * stride + count)
                    IN
                    /\ count >= 1
                    /\ ChunkTokens(c) = held
                    /\ Len(c.text) = SumLen(held) + count - 1
                    /\ c.metadata.chunk_index = i
                    /\ c.metadata.char_count = Len(c.text)
                    /\ c.metadata.source = chunker.source

\* four tokens cut with stride 2 and overlap 1: two chunks, the last one short
C14_Witness ==
    /\ ChunkerCalled
    /\ Len(Tokens) = 4
    /\ chunker.chunk_size = 3
    /\ chunker.overlap = 1
    /\ chunker.outcome.kind = "returned"
    /\ Len(chunker.outcome.value) = 2
    /\ Len(ChunkTokens(chunker.outcome.value[2])) = 2

\* the last m and the first m tokens of a chunk; m may not exceed its length
LastTokens(c, m) ==
    SubSeq(ChunkTokens(c), Len(ChunkTokens(c)) - m + 1, Len(ChunkTokens(c)))

FirstTokens(c, m) == SubSeq(ChunkTokens(c), 1, m)

(***************************************************************************)
(* C15, as stated: for every chunk i that is not the final chunk, the last *)
(* overlap tokens of chunk i are exactly the first overlap tokens of chunk *)
(* i + 1.                                                                  *)
(***************************************************************************)
C15_ConsecutiveChunksShareOverlap ==
    (ChunkerCalled /\ chunker.outcome.kind = "returned"
        /\ chunker.chunk_size - chunker.overlap >= 1) =>
        \A k \in 1..(Len(chunker.outcome.value) - 1) :
            LET c == chunker.outcome.value[k]
                d == chunker.outcome.value[k + 1]
            IN
            /\ Len(ChunkTokens(c)) >= chunker.overlap
            /\ Len(ChunkTokens(d)) >= chunker.overlap
            /\ LastTokens(c, chunker.overlap) = FirstTokens(d, chunker.overlap)

(***************************************************************************)
(* C15, amended: consecutive chunks i and i + 1 share                      *)
(* m = min(overlap, length of chunk i + 1) tokens: the last m tokens of    *)
(* chunk i are the first m tokens of chunk i + 1.  m is overlap whenever   *)
(* chunk i + 1 holds at least overlap tokens, and chunk i then is full.    *)
(***************************************************************************)
C15_ConsecutiveChunksShareUpToOverlap ==
    (ChunkerCalled /\ chunker.outcome.kind = "returned"
        /\ chunker.chunk_size - chunker.overlap >= 1) =>
        \A k \in 1..(Len(chunker.outcome.value) - 1) :
            LET c == chunker.outcome.value[k]
                d == chunker.outcome.value[k + 1]
                m == Min(chunker.overlap, Len(ChunkTokens(d)))
            IN
            /\ Len(ChunkTokens(c)) >= m
            /\ LastTokens(c, m) = FirstTokens(d, m)
            /\ Len(ChunkTokens(d)) >= chunker.overlap =>
                  /\ m = chunker.overlap
                  /\ Len(ChunkTokens(c)) = chunker.chunk_size

\* "a b a b" cut with chunk_size 3 and overlap 2: the third chunk "a b" is
\* followed by the chunk "b", which is shorter than the overlap
C15_Witness ==
    /\ ChunkerCalled
    /\ chunker.chunk_size = 3
    /\ chunker.overlap = 2
    /\ Tokens = << <<"a">>, <<"b">>, <<"a">>, <<"b">> >>
    /\ chunker.outcome.kind = "returned"
    /\ Len(chunker.outcome.value) = 4
    /\ Len(ChunkTokens(chunker.outcome.value[4])) = 1

\* the tokens of chunk k that no earlier chunk holds: all of the first chunk,
\* and of a later chunk those after the tokens it repeats
FreshTokens(chunks, k) ==
    LET held == ChunkTokens(chunks[k])
        repeated == Min(chunker.overlap, Len(held))
    IN IF k = 1 THEN held ELSE SubSeq(held, repeated + 1, Len(held))

\* the fresh tokens of the chunks k, k + 1, ..., one after the other
RECURSIVE Coverage(_, _)
Coverage(chunks, k) ==
    IF k > Len(chunks) THEN <<>>
    ELSE FreshTokens(chunks, k) \o Coverage(chunks, k + 1)

C17_OverlapNotBelowSizeRaises ==
    (ChunkerCalled /\ Len(Tokens) >= 1
        /\ chunker.overlap >= chunker.chunk_size) =>
        chunker.outcome.kind = "raised"

(***************************************************************************)
(* Claims about SimulatedEvaluator.evaluate_query, read on the evaluator   *)
(* after its call.                                                         *)
(***************************************************************************)
Evaluated == evaluator.outcome.kind = "returned"

EvalAnswer == Get(evaluator.response, "answer", <<>>)

EvalSourcesGiven == Get(evaluator.response, "sources", <<>>)

InUnitInterval(x) ==
    /\ x.den > 0
    /\ 0 <= x.num
    /\ x.num <= x.den

(***************************************************************************)
(* C18: for every query, answer and source list with scores in [0, 1],     *)
(* each of faithfulness, context_precision, context_recall,                *)
(* answer_relevance and overall_score of the returned record lies in the   *)
(* closed interval [0, 1].                                                 *)
(***************************************************************************)
C18_ScoresInUnitInterval ==
    (evaluator.outcome.kind # "pending"
        /\ \A i \in 1..Len(EvalSourcesGiven) :
              0 <= EvalSourcesGiven[i].score /\ EvalSourcesGiven[i].score <= 100) =>
        /\ Evaluated
        /\ DOMAIN evaluator.outcome.value =
              {"faithfulness", "context_precision", "context_recall",
               "answer_relevance", "overall_score"}
        /\ \A field \in DOMAIN evaluator.outcome.value :
              InUnitInterval(evaluator.outcome.value[field])

\* five sources of score 1.0 that hold the answer, which repeats the query:
\* every field is 1
C18_Witness ==
    /\ Evaluated
    /\ Len(EvalSourcesGiven) = 5
    /\ \A field \in DOMAIN evaluator.outcome.value :
          evaluator.outcome.value[field] = One

\* x as a number of D-ths, for a D that the denominator of x divides
Scaled(x, D) == x.num * (D \div x.den)

(***************************************************************************)
(* C19: overall_score of the returned record equals                        *)
(* 0.3 * faithfulness + 0.3 * answer_relevance + 0.2 * context_precision   *)
(* + 0.2 * context_recall of the same record, for every input: the weights *)
(* do not depend on the call.                                              *)
(***************************************************************************)
C19_OverallScoreIsWeightedSum ==
    Evaluated =>
        LET r == evaluator.outcome.value
            D == 10 * r.faithfulness.den * r.answer_relevance.den
                    * r.context_precision.den * r.context_recall.den
        IN
        /\ D % r.overall_score.den = 0
        /\ 10 * Scaled(r.overall_score, D) =
              3 * Scaled(r.faithfulness, D) + 3 * Scaled(r.answer_relevance, D)
                + 2 * Scaled(r.context_precision, D)
                + 2 * Scaled(r.context_recall, D)

\* faithfulness 1/2, relevance 1, precision 1, recall 1/5: overall 0.69
C19_Witness ==
    /\ Evaluated
    /\ evaluator.outcome.value.faithfulness = Frac(1, 2)
    /\ evaluator.outcome.value.answer_relevance = One
    /\ evaluator.outcome.value.context_precision = One
    /\ evaluator.outcome.value.context_recall = Frac(1, 5)
    /\ evaluator.outcome.value.overall_score = Frac(69, 100)

\* A: the distinct lower-case tokens of the answer
AnswerTokens == WordSet(EvalAnswer)

\* S: the distinct lower-case tokens of the source texts
SourceTokens ==
    UNION { WordSet(EvalSourcesGiven[i].text) : i \in 1..Len(EvalSourcesGiven) }

FaithfulnessFormula ==
    evaluator.outcome.value.faithfulness =
        Frac(Cardinality(AnswerTokens \cap SourceTokens),
             Max(Cardinality(AnswerTokens), 1))

(***************************************************************************)
(* C20, as stated: faithfulness is |A /\ S| / max(|A|, 1); it is 0         *)
(* whenever sources is empty; it is 1 exactly when the answer is a         *)
(* non-empty string and every token of the answer occurs in some source.   *)
(***************************************************************************)
C20_FaithfulnessOneIffNonEmptyAnswerCovered ==
    Evaluated =>
        /\ FaithfulnessFormula
        /\ Len(EvalSourcesGiven) = 0 => evaluator.outcome.value.faithfulness = Zero
        /\ evaluator.outcome.value.faithfulness = One <=>
              (EvalAnswer # <<>> /\ AnswerTokens \subseteq SourceTokens)

(***************************************************************************)
(* C20, amended: faithfulness is |A /\ S| / max(|A|, 1); it is 0 whenever  *)
(* sources is empty; it is 1 exactly when the answer has at least one      *)
(* token and every token of the answer occurs in some source.  An answer   *)
(* of whitespace only has no token and gets 0.                             *)
(***************************************************************************)
C20_FaithfulnessOneIffTokensCovered ==
    Evaluated =>
        /\ FaithfulnessFormula
        /\ Len(EvalSourcesGiven) = 0 => evaluator.outcome.value.faithfulness = Zero
        /\ evaluator.outcome.value.faithfulness = One <=>
              (AnswerTokens # {} /\ AnswerTokens \subseteq SourceTokens)
        /\ AnswerTokens = {} => evaluator.outcome.value.faithfulness = Zero

\* an answer of blanks only, evaluated against sources that have tokens
C20_Witness ==
    /\ Evaluated
    /\ EvalAnswer # <<>>
    /\ AnswerTokens = {}
    /\ SourceTokens # {}
    /\ evaluator.outcome.value.faithfulness = Zero

\* Q: the distinct lower-case tokens of the query
QueryTokens == WordSet(evaluator.query)

(***************************************************************************)
(* C21: answer_relevance is |Q /\ A| / max(|Q|, 1) over the distinct       *)
(* lower-case tokens of the query and of the answer; an answer that is     *)
(* empty or whitespace only gets faithfulness 0 and answer_relevance 0     *)
(* whatever the query and the sources; an empty query gets                 *)
(* answer_relevance 0.                                                     *)
(***************************************************************************)
C21_RelevanceIsQueryOverlap ==
    Evaluated =>
        LET r == evaluator.outcome.value IN
        /\ r.answer_relevance =
              Frac(Cardinality(QueryTokens \cap AnswerTokens),
                   Max(Cardinality(QueryTokens), 1))
        /\ (\A i \in 1..Len(EvalAnswer) : IsSpace(EvalAnswer[i])) =>
              /\ r.faithfulness = Zero
              /\ r.answer_relevance = Zero
        /\ evaluator.query = <<>> => r.answer_relevance = Zero

\* a query of two words of which the answer holds one: relevance 1/2
C21_Witness ==
    /\ Evaluated
    /\ Cardinality(QueryTokens) = 2
    /\ Cardinality(QueryTokens \cap AnswerTokens) = 1
    /\ evaluator.outcome.value.answer_relevance = Frac(1, 2)

(***************************************************************************)
(* C22: context_recall is min(len(sources) / 5, 1.0): 0 without sources,   *)
(* 0.2 for one source, 1.0 for five sources or more; it does not decrease  *)
(* when sources are added and depends on their number only, not on their   *)
(* texts and scores.                                                       *)
(***************************************************************************)
C22_ContextRecallCountsSources ==
    Evaluated =>
        LET n == Len(EvalSourcesGiven)
            recall == evaluator.outcome.value.context_recall
        IN
        /\ recall = IF n >= 5 THEN One ELSE Frac(n, 5)
        /\ n = 0 => recall = Zero
        /\ n = 1 => recall = Frac(2, 10)
        /\ \A m \in 0..n :
              FracLeq(ContextRecall(SubSeq(EvalSourcesGiven, 1, m)), recall)

\* six sources: the recall stays at 1
C22_Witness ==
    /\ Evaluated
    /\ Len(EvalSourcesGiven) = 6
    /\ evaluator.outcome.value.context_recall = One

\* the fields that go with the sources, with the answer and with the query
EmptyInputsGiveZero ==
    LET r == evaluator.outcome.value IN
    /\ Len(EvalSourcesGiven) = 0 =>
          /\ r.faithfulness = Zero
          /\ r.context_precision = Zero
          /\ r.context_recall = Zero
    /\ EvalAnswer = <<>> => r.faithfulness = Zero /\ r.answer_relevance = Zero
    /\ evaluator.query = <<>> => r.answer_relevance = Zero

(***************************************************************************)
(* C23: evaluate_query never raises: for an empty or non-empty query, an   *)
(* empty or non-empty answer and empty or non-empty sources it returns a   *)
(* record with all five fields defined, 0 where the input a field goes     *)
(* with is empty; the call involves no collaborator of the pipelines and   *)
(* leaves the query and the response as they were given.                   *)
(***************************************************************************)
C23_EvaluateNeverRaises ==
    /\ [](evaluator.outcome.kind # "pending" =>
            /\ Evaluated
            /\ DOMAIN evaluator.outcome.value =
                  {"faithfulness", "context_precision", "context_recall",
                   "answer_relevance", "overall_score"}
            /\ \A field \in DOMAIN evaluator.outcome.value :
                  evaluator.outcome.value[field].den > 0
            /\ EmptyInputsGiveZero)
    /\ [][/\ evaluator'.query = evaluator.query
          /\ evaluator'.response = evaluator.response
          /\ UNCHANGED pipelines]_vars

\* a response without answer and without sources, evaluated for the empty
\* query: every field is 0
C23_Witness ==
    /\ Evaluated
    /\ evaluator.query = <<>>
    /\ evaluator.response = EmptyDict
    /\ \A field \in DOMAIN evaluator.outcome.value :
          evaluator.outcome.value[field] = Zero

\* the converted text of the call of frame f has no token
ZeroTokens(f) == Len(Split(Characters(f.markdown))) = 0

(***************************************************************************)
(* C27: ingesting a document whose converted text has no token (it is      *)
(* empty or whitespace only) is not a failure: the chunker returns no      *)
(* chunk, embed and insert are still invoked, once each and with empty     *)
(* arrays, and when both succeed the record is 'completed' with            *)
(* chunk_count 0.                                                          *)
(***************************************************************************)
C27_EmptyDocumentCompletes ==
    \A t \in Tasks :
        LET f == ingest[t] IN
        (ZeroTokens(f) /\ Invoked(f, "chunk")) =>
            /\ ~RaisedIn(f, "chunk")
            /\ f.chunks = <<>>
            /\ Invoked(f, "embed") => f.texts = <<>>
            /\ Invoked(f, "insert") =>
                  /\ f.embeddings = <<>>
                  /\ f.insert_args =
                        << [embeddings |-> <<>>, texts |-> <<>>, metadatas |-> <<>>] >>
                  /\ f.data =
                        << [ids |-> <<>>, texts |-> <<>>, embeddings |-> <<>>,
                            metadatas |-> <<>>] >>
            /\ (f.pc = "done" /\ f.raised = <<>>) =>
                  /\ f.calls = <<"convert", "chunk", "embed", "insert">>
                  /\ f.outcome.kind = "returned"
                  /\ f.outcome.value.status = "completed"
                  /\ f.outcome.value.chunk_count = 0

\* a whitespace-only document, ingested to the end
C27_Witness ==
    \E t \in Tasks :
        /\ ingest[t].markdown = " \n "
        /\ ingest[t].calls = <<"convert", "chunk", "embed", "insert">>
        /\ ingest[t].outcome.kind = "returned"
        /\ ingest[t].outcome.value.status = "completed"
        /\ ingest[t].outcome.value.chunk_count = 0

(***************************************************************************)
(* C26: the retrieved_count of a returned result, and so the number of     *)
(* its sources, is at most the top_k of the query.                         *)
(***************************************************************************)
C26_RetrievedCountAtMostTopK ==
    \A t \in Tasks :
        query[t].outcome.kind = "returned" =>
            /\ query[t].outcome.value.retrieved_count <= query[t].top_k
            /\ Len(query[t].outcome.value.sources) <= query[t].top_k

\* the texts of a list of chunks
ChunkTextsOf(chunks) == [i \in 1..Len(chunks) |-> chunks[i].text]

\* the ingest call of frame f has what belongs to it and nothing else
OwnIngest(f) ==
    /\ f.outcome.kind = "returned" =>
          /\ f.outcome.value.document_id = f.document_id
          /\ f.outcome.value.status = "completed" =>
                /\ f.outcome.value.source = f.file_path
                /\ f.outcome.value.chunk_count = Len(ConcurrentChunks(f.file_path))
    /\ f.data # <<>> =>
          /\ f.data[1].texts = ChunkTextsOf(ConcurrentChunks(f.file_path))
          /\ Len(f.data[1].metadatas) = Len(ConcurrentChunks(f.file_path))
          /\ \A i \in 1..Len(f.data[1].metadatas) :
                /\ f.data[1].metadatas[i].document_id = f.document_id
                /\ f.data[1].metadatas[i].source = f.file_path

\* the query call of frame q has what belongs to it and nothing else
OwnQuery(q) ==
    /\ q.chat_args # <<>> =>
          /\ q.chat_args[1].prompt = q.question
          /\ q.chat_args[1].context = Context(ConcurrentHits(q.question))
    /\ q.outcome.kind = "returned" =>
          /\ q.outcome.value.answer = ConcurrentAnswer(q.question)
          /\ q.outcome.value.retrieved_count = Len(ConcurrentHits(q.question))
          /\ [i \in 1..Len(q.outcome.value.sources) |->
                q.outcome.value.sources[i].text]
                = [i \in 1..Len(ConcurrentHits(q.question)) |->
                      ConcurrentHits(q.question)[i].text]

(***************************************************************************)
(* C24: concurrent ingest and query calls, interleaved at any gateway      *)
(* call, are independent: the record an ingest returns and every metadata  *)
(* entry it inserts carry the document_id, the chunks and the source of    *)
(* that call and of no other, calls in flight together have different      *)
(* document_ids, and the result of a query is built from its own hits and  *)
(* its own answer.                                                         *)
(***************************************************************************)
C24_ConcurrentCallsIndependent ==
    /\ \A t \in Tasks : OwnIngest(ingest[t]) /\ OwnQuery(query[t])
    /\ \A t, u \in Tasks :
          (t # u /\ ingest[t].pc # "idle" /\ ingest[u].pc # "idle") =>
              /\ ingest[t].document_id # ingest[u].document_id
              /\ ingest[t].data # <<>> =>
                    \A i \in 1..Len(ingest[t].data[1].ids) :
                        /\ ingest[t].data[1].ids[i] # ingest[u].document_id
                        /\ ingest[u].data # <<>> =>
                              \A j \in 1..Len(ingest[u].data[1].ids) :
                                  ingest[t].data[1].ids[i] # ingest[u].data[1].ids[j]

\* two ingest calls of different files in flight together, both completed;
\* the one begun first inserted last
C24_Witness ==
    \E t, u \in Tasks :
        /\ ingest[t].file_path = "x.pdf"
        /\ ingest[u].file_path = "y.md"
        /\ ingest[t].outcome.kind = "returned"
        /\ ingest[u].outcome.kind = "returned"
        /\ ingest[t].outcome.value.status = "completed"
        /\ ingest[u].outcome.value.status = "completed"
        /\ ingest[t].document_id = Uuid(1)
        /\ ingest[t].data[1].ids = << Uuid(5) >>

\* a handler of POST /query that has its response
QueryHandled(t) == api[t].pc = "done" /\ "query" \in DOMAIN api[t].request

\* a handler of POST /ingest that has its response
IngestHandled(t) == api[t].pc = "done" /\ "filename" \in DOMAIN api[t].request

(***************************************************************************)
(* C25: through the /query endpoint every returned answer, the answer for  *)
(* no hits included, comes with the evaluation computed, after the         *)
(* pipeline query has ended, from the query string of the same request     *)
(* and its Query Result; if the pipeline or the evaluator raises, the      *)
(* response has status 500, its detail is the error message, and it holds  *)
(* no answer and no evaluation.                                            *)
(***************************************************************************)
C25_AnswersComeWithEvaluation ==
    \A t \in Tasks :
        QueryHandled(t) =>
            LET handler == api[t]
                outcome == handler.result[1]
                response == handler.response[1]
            IN
            /\ Len(handler.result) = 1
            /\ IF outcome.kind = "returned"
               THEN LET evaluation ==
                            EvaluateQuery(
                                Characters(handler.request.query),
                                [answer |-> Characters(outcome.value.answer),
                                 sources |->
                                    [i \in 1..Len(outcome.value.sources) |->
                                        [text |-> Characters(outcome.value.sources[i].text),
                                         score |-> outcome.value.sources[i].score]]])
                    IN
                    /\ handler.calls = <<"query", "evaluate_query">>
                    /\ IF evaluation.kind = "returned"
                       THEN /\ response.status_code = 200
                            /\ response.body.answer = outcome.value.answer
                            /\ "evaluation" \in DOMAIN response.body
                            /\ response.body.evaluation = evaluation.value
                       ELSE response =
                                [status_code |-> 500, detail |-> evaluation.error]
               ELSE /\ handler.calls = <<"query">>
                    /\ response = [status_code |-> 500, detail |-> outcome.error]

\* the answer for no hits has been returned with its evaluation
C25_Witness ==
    \E t \in Tasks :
        /\ QueryHandled(t)
        /\ api[t].response[1].status_code = 200
        /\ api[t].response[1].body.answer = "No relevant documents found."
        /\ api[t].response[1].body.evaluation.answer_relevance = One
        /\ api[t].calls = <<"query", "evaluate_query">>

(***************************************************************************)
(* C28: POST /ingest never invokes the ingestion pipeline: for every       *)
(* upload the response is status completed, chunk_count 5 and the uploaded *)
(* filename as source, no converter, chunker, embedding service or vector  *)
(* store is called, the vector index is as it was, and the temporary copy  *)
(* of the upload is gone when the handler has returned.                    *)
(***************************************************************************)
C28_IngestEndpointIsMock ==
    /\ \A t \in Tasks : ingest[t] = IdleIngest
    /\ num_entities = 0
    /\ \A t \in Tasks :
          IngestHandled(t) =>
              LET response == api[t].response[1] IN
              /\ response.status_code = 200
              /\ response.body.status = "completed"
              /\ response.body.chunk_count = 5
              /\ response.body.source = api[t].request.filename
              /\ api[t].tmp_path \notin tmp_files

(***************************************************************************)
(* C29: in the API application, whenever the search of the vector store    *)
(* runs, create_collection has been called before, so that the collection  *)
(* of the store is not None.  (The application never inserts.)             *)
(***************************************************************************)
C29_CollectionCreatedBeforeUse ==
    \A t \in Tasks :
        (\E i \in 1..Len(query[t].calls) : query[t].calls[i] = "search") =>
            collection # "None"

\* the tokens of the fixed answer for no hits, in lower case
NoHitsTokens ==
    { Characters("no"), Characters("relevant"), Characters("documents"),
      Characters("found.") }

(***************************************************************************)
(* C30: for a query that gets no hits, the evaluation of the result of the *)
(* pipeline has faithfulness 0, context_precision 0, context_recall 0 and  *)
(* overall_score 0.3 * answer_relevance, at most 0.3; answer_relevance is  *)
(* the share of the tokens of the query found among the tokens of          *)
(* 'No relevant documents found.', and is not 0 when the query holds one of *)
(* those tokens.                                                           *)
(***************************************************************************)
C30_NoHitsEvaluation ==
    \A t \in Tasks :
        ( /\ QueryHandled(t)
          /\ api[t].result[1].kind = "returned"
          /\ api[t].result[1].value.retrieved_count = 0 ) =>
            LET scores == api[t].response[1].body.evaluation
                tokens == WordSet(Characters(api[t].request.query))
            IN
            /\ scores.faithfulness = Zero
            /\ scores.context_precision = Zero
            /\ scores.context_recall = Zero
            /\ scores.overall_score = FracMul(Frac(3, 10), scores.answer_relevance)
            /\ FracLeq(scores.overall_score, Frac(3, 10))
            /\ scores.answer_relevance =
                  Frac(Cardinality(tokens \cap NoHitsTokens),
                       Max(Cardinality(tokens), 1))
            /\ tokens \cap NoHitsTokens # {} => scores.answer_relevance # Zero

\* 'is it found.' got no hits: one token of three is in the fixed answer
C30_Witness ==
    \E t \in Tasks :
        /\ QueryHandled(t)
        /\ api[t].request.query = "is it found."
        /\ api[t].result[1].kind = "returned"
        /\ api[t].result[1].value.retrieved_count = 0
        /\ api[t].response[1].body.evaluation.answer_relevance = Frac(1, 3)
        /\ api[t].response[1].body.evaluation.overall_score = Frac(1, 10)

====
